---- MODULE Spec2Model ----
(***************************************************************************)
(* Model of Disc_Step_Sequencer/debouncer.py: class Debouncer.             *)
(*                                                                         *)
(* Time is counted in clock ticks of 10 ms: time.monotonic() is the integer *)
(* `clock`, the default interval of 0.010 s is 1 tick.  The raw-sample    *)
(* function self.f reads the input `pin`, or raises.                       *)
(***************************************************************************)
EXTENDS Integers, Sequences, FiniteSets, TLC

\* ------------------------------------------------------------- bounds
\* Last clock reading the model explores.
MaxTime == 4
\* Largest positive interval (in ticks) passed to the constructor.
MaxInterval == 2
\* Most update calls the counting specification follows.
MaxUpdates == 4

\* ---------------------------------------------------- program constants
DEBOUNCED_STATE == 1
UNSTABLE_STATE == 2
CHANGED_STATE == 4
\* interval=0.010 (lines 26, 44), in ticks of 10 ms
DefaultInterval == 1
\* self.state holds the three flag bits above
StateBits == 3

\* ------------------------------------------- bitwise operators on ints
BitAt(n, i) == (n \div (2 ^ i)) % 2

RECURSIVE BitFold(_, _, _, _)
\* The integer whose bit i is op[bit i of a, bit i of b], for bits i..StateBits-1.
BitFold(op, a, b, i) ==
    IF i >= StateBits THEN 0
    ELSE op[BitAt(a, i)][BitAt(b, i)] * (2 ^ i) + BitFold(op, a, b, i + 1)

\* a | b
BitOr(a, b) == BitFold([x \in 0..1 |-> [y \in 0..1 |-> IF x + y > 0 THEN 1 ELSE 0]], a, b, 0)
\* a & ~b
BitAndNot(a, b) == BitFold([x \in 0..1 |-> [y \in 0..1 |-> IF x = 1 /\ y = 0 THEN 1 ELSE 0]], a, b, 0)
\* a ^ b
BitXor(a, b) == BitFold([x \in 0..1 |-> [y \in 0..1 |-> (x + y) % 2]], a, b, 0)
\* a & b
BitAnd(a, b) == BitFold([x \in 0..1 |-> [y \in 0..1 |-> x * y]], a, b, 0)

\* ------------------------------------------------ Debouncer's helpers
\* __set_state: self.state |= bits
set_state(s, bits) == BitOr(s, bits)
\* __unset_state: self.state &= ~bits
unset_state(s, bits) == BitAndNot(s, bits)
\* __toggle_state: self.state ^= bits
toggle_state(s, bits) == BitXor(s, bits)
\* __get_state: (self.state & bits) != 0
get_state(s, bits) == BitAnd(s, bits) # 0

\* ----------------------------------------------------------- queries
\* property value
value(s) == get_state(s, DEBOUNCED_STATE)
\* property rose
rose(s) == get_state(s, DEBOUNCED_STATE) /\ get_state(s, CHANGED_STATE)
\* property fell
fell(s) == (~get_state(s, DEBOUNCED_STATE)) /\ get_state(s, CHANGED_STATE)

\* ------------------------------------------------------- construction
\* The interval argument: None, or a number of ticks.
NoneArg == [none |-> TRUE, ticks |-> 0]
IntervalArgs == {NoneArg} \cup {[none |-> FALSE, ticks |-> i] : i \in {-1, 0, MaxInterval}}

\* A mutant of the constructor: only DEBOUNCED_STATE is seeded.
Debouncer_init_debounced_only(sample, intervalArg) ==
    [state |-> IF sample THEN set_state(0, DEBOUNCED_STATE) ELSE 0,
     previous_time |-> 0,
     interval |-> IF intervalArg.none THEN DefaultInterval ELSE intervalArg.ticks]

\* __init__ with self.f() returning `sample`: the fields of the new object.
Debouncer_init(sample, intervalArg) ==
    [state |-> IF sample
               THEN set_state(0, BitOr(DEBOUNCED_STATE, UNSTABLE_STATE))
               ELSE 0,
     previous_time |-> 0,
     interval |-> IF intervalArg.none THEN DefaultInterval ELSE intervalArg.ticks]

\* ------------------------------------------------------------- update
\* Mutant: line 68 (clearing CHANGED_STATE) is missing.
update_no_clear(self, now, current_state) ==
    LET s1 == self.state IN
    IF current_state # get_state(s1, UNSTABLE_STATE)
    THEN [self EXCEPT !.previous_time = now,
                      !.state = toggle_state(s1, UNSTABLE_STATE)]
    ELSE IF now - self.previous_time >= self.interval
              /\ current_state # get_state(s1, DEBOUNCED_STATE)
         THEN [self EXCEPT !.previous_time = now,
                           !.state = set_state(toggle_state(s1, DEBOUNCED_STATE),
                                               CHANGED_STATE)]
         ELSE [self EXCEPT !.state = s1]

\* Mutant: line 70 tests == instead of !=.
update_inverted_test(self, now, current_state) ==
    LET s1 == unset_state(self.state, CHANGED_STATE) IN
    IF current_state = get_state(s1, UNSTABLE_STATE)
    THEN [self EXCEPT !.previous_time = now,
                      !.state = toggle_state(s1, UNSTABLE_STATE)]
    ELSE IF now - self.previous_time >= self.interval
              /\ current_state # get_state(s1, DEBOUNCED_STATE)
         THEN [self EXCEPT !.previous_time = now,
                           !.state = set_state(toggle_state(s1, DEBOUNCED_STATE),
                                               CHANGED_STATE)]
         ELSE [self EXCEPT !.state = s1]

\* Mutant: line 71 is missing, a raw change does not restart the timer.
update_no_restart(self, now, current_state) ==
    LET s1 == unset_state(self.state, CHANGED_STATE) IN
    IF current_state # get_state(s1, UNSTABLE_STATE)
    THEN [self EXCEPT !.state = toggle_state(s1, UNSTABLE_STATE)]
    ELSE IF now - self.previous_time >= self.interval
              /\ current_state # get_state(s1, DEBOUNCED_STATE)
         THEN [self EXCEPT !.previous_time = now,
                           !.state = set_state(toggle_state(s1, DEBOUNCED_STATE),
                                               CHANGED_STATE)]
         ELSE [self EXCEPT !.state = s1]

\* Mutant: line 74 tests > instead of >=.
update_strict(self, now, current_state) ==
    LET s1 == unset_state(self.state, CHANGED_STATE) IN
    IF current_state # get_state(s1, UNSTABLE_STATE)
    THEN [self EXCEPT !.previous_time = now,
                      !.state = toggle_state(s1, UNSTABLE_STATE)]
    ELSE IF now - self.previous_time > self.interval
              /\ current_state # get_state(s1, DEBOUNCED_STATE)
         THEN [self EXCEPT !.previous_time = now,
                           !.state = set_state(toggle_state(s1, DEBOUNCED_STATE),
                                               CHANGED_STATE)]
         ELSE [self EXCEPT !.state = s1]

\* Mutant: the test of line 75 is missing.
update_no_debounced_test(self, now, current_state) ==
    LET s1 == unset_state(self.state, CHANGED_STATE) IN
    IF current_state # get_state(s1, UNSTABLE_STATE)
    THEN [self EXCEPT !.previous_time = now,
                      !.state = toggle_state(s1, UNSTABLE_STATE)]
    ELSE IF now - self.previous_time >= self.interval
         THEN [self EXCEPT !.previous_time = now,
                           !.state = set_state(toggle_state(s1, DEBOUNCED_STATE),
                                               CHANGED_STATE)]
         ELSE [self EXCEPT !.state = s1]

\* The Debouncer of C15: update without line 76, previous_time is set only
\* when a raw change is seen.
update_single_stamp(self, now, current_state) ==
    LET s1 == unset_state(self.state, CHANGED_STATE) IN
    IF current_state # get_state(s1, UNSTABLE_STATE)
    THEN [self EXCEPT !.previous_time = now,
                      !.state = toggle_state(s1, UNSTABLE_STATE)]
    ELSE IF now - self.previous_time >= self.interval
              /\ current_state # get_state(s1, DEBOUNCED_STATE)
         THEN [self EXCEPT !.state = set_state(toggle_state(s1, DEBOUNCED_STATE),
                                               CHANGED_STATE)]
         ELSE [self EXCEPT !.state = s1]

\* Mutant: line 74 tests now >= interval, previous_time is not subtracted.
update_no_elapsed(self, now, current_state) ==
    LET s1 == unset_state(self.state, CHANGED_STATE) IN
    IF current_state # get_state(s1, UNSTABLE_STATE)
    THEN [self EXCEPT !.previous_time = now,
                      !.state = toggle_state(s1, UNSTABLE_STATE)]
    ELSE IF now >= self.interval
              /\ current_state # get_state(s1, DEBOUNCED_STATE)
         THEN [self EXCEPT !.previous_time = now,
                           !.state = set_state(toggle_state(s1, DEBOUNCED_STATE),
                                               CHANGED_STATE)]
         ELSE [self EXCEPT !.state = s1]

\* Mutant: the else of line 73 is missing, both tests run in one call.
update_no_else(self, now, current_state) ==
    LET s1 == unset_state(self.state, CHANGED_STATE)
        changed == current_state # get_state(s1, UNSTABLE_STATE)
        s2 == IF changed THEN toggle_state(s1, UNSTABLE_STATE) ELSE s1
        t2 == IF changed THEN now ELSE self.previous_time
    IN  IF now - t2 >= self.interval
           /\ current_state # get_state(s2, DEBOUNCED_STATE)
        THEN [self EXCEPT !.previous_time = now,
                          !.state = set_state(toggle_state(s2, DEBOUNCED_STATE),
                                              CHANGED_STATE)]
        ELSE [self EXCEPT !.previous_time = t2, !.state = s2]

\* update() when time.monotonic() returns `now` and self.f() returns
\* `current_state`: the fields of the object when update returns.
update(self, now, current_state) ==
    LET s1 == unset_state(self.state, CHANGED_STATE) IN
    IF current_state # get_state(s1, UNSTABLE_STATE)
    THEN [self EXCEPT !.previous_time = now,
                      !.state = toggle_state(s1, UNSTABLE_STATE)]
    ELSE IF now - self.previous_time >= self.interval
              /\ current_state # get_state(s1, DEBOUNCED_STATE)
         THEN [self EXCEPT !.previous_time = now,
                           !.state = set_state(toggle_state(s1, DEBOUNCED_STATE),
                                               CHANGED_STATE)]
         ELSE [self EXCEPT !.state = s1]

\* Mutant: self.f() is called before CHANGED_STATE is cleared.
update_raise_before_clear(self, now) == self

\* update() when self.f() raises: lines 67-68 have run, the exception leaves
\* update at line 69.
update_raise(self, now) ==
    [self EXCEPT !.state = unset_state(self.state, CHANGED_STATE)]

\* -------------------------------------------------------------- state
VARIABLES
    state,          \* self.state, the packed flag bits
    previous_time,  \* self.previous_time
    interval,       \* self.interval
    clock,          \* what time.monotonic() returns now
    pin,            \* what self.f() returns now, when it returns
    seed,           \* history: the sample the constructor took
    lastSample,     \* history: the last sample self.f() returned
    obs,            \* history: <<t>>, t the clock reading of the update that
                    \*   last saw a sample differ from its predecessor, or <<>>
    lastNow,        \* history: <<t>>, t the clock reading of the last update
    alt,            \* history: every update so far saw a sample unlike the
                    \*   one before it, less than interval after the last update
    pinHistory,     \* history: how often the pin changed since construction
    changeSeen,     \* history: an update saw a raw change since the last edge
    raised,         \* history: the last update call raised
    reads,          \* history: what each query returned since the last update
    updates,        \* history: update calls made (counting specification)
    calls,          \* history: calls of self.f() (counting specification)
    clockReads,     \* history: calls of time.monotonic() (counting specification)
    lastEdge,       \* history: <<t>>, t the clock reading of the update that
                    \*   last flipped debounced_state, or <<>>
    twin            \* the fields of a Debouncer without line 76, constructed
                    \*   and updated alongside this one

vars == <<state, previous_time, interval, clock, pin, seed, lastSample, obs,
          lastNow, alt, pinHistory, changeSeen, raised, reads, updates, calls,
          clockReads, lastEdge, twin>>

fields == <<state, previous_time, interval>>

self == [state |-> state, previous_time |-> previous_time, interval |-> interval]

NoReads == [value |-> <<>>, rose |-> <<>>, fell |-> <<>>]

TypeOK ==
    /\ state \in 0..(2 ^ StateBits - 1)
    /\ previous_time \in 0..clock
    /\ interval \in {a.ticks : a \in IntervalArgs} \cup {DefaultInterval}
    /\ clock \in 0..MaxTime
    /\ pin \in BOOLEAN /\ seed \in BOOLEAN /\ lastSample \in BOOLEAN
    /\ alt \in BOOLEAN /\ changeSeen \in BOOLEAN /\ raised \in BOOLEAN
    /\ pinHistory \in {"steady", "changedOnce", "bouncing"}
    /\ updates \in Nat /\ calls \in Nat /\ clockReads \in Nat
    /\ lastEdge \in {<<>>} \cup {<<t>> : t \in 0..clock}
    /\ twin.state \in 0..(2 ^ StateBits - 1) /\ twin.previous_time \in 0..clock

\* The object as constructed from a sample of the pin and an interval argument.
Init ==
    \E sample \in BOOLEAN, intervalArg \in IntervalArgs :
        LET new == Debouncer_init(sample, intervalArg) IN
        /\ state = new.state
        /\ previous_time = new.previous_time
        /\ interval = new.interval
        /\ clock = 0
        /\ pin = sample
        /\ seed = sample
        /\ lastSample = sample
        /\ obs = <<>>
        /\ lastNow = <<>>
        /\ alt = TRUE
        /\ pinHistory = "steady"
        /\ changeSeen = FALSE
        /\ raised = FALSE
        /\ reads = NoReads
        /\ updates = 0
        /\ calls = 1
        /\ clockReads = 0
        /\ lastEdge = <<>>
        /\ twin = new

\* ------------------------------------------------------------ actions
\* update(), self.f() returning the pin's value; the counters are left to
\* the caller of this definition.
UpdateReturns ==
    LET new == update(self, clock, pin) IN
    /\ state' = new.state
    /\ previous_time' = new.previous_time
    /\ interval' = new.interval
    /\ lastSample' = pin
    /\ obs' = IF pin # lastSample THEN <<clock>> ELSE obs
    /\ alt' = (alt /\ (lastNow = <<>>
                       \/ (pin # lastSample /\ clock - lastNow[1] < interval)))
    /\ lastNow' = IF alt' THEN <<clock>> ELSE lastNow
    /\ changeSeen' = IF get_state(new.state, CHANGED_STATE)
                     THEN FALSE
                     ELSE (changeSeen \/ pin # lastSample)
    /\ raised' = FALSE
    /\ reads' = NoReads
    /\ lastEdge' = IF get_state(new.state, CHANGED_STATE) THEN <<clock>> ELSE lastEdge
    /\ twin' = update_single_stamp(twin, clock, pin)
    /\ UNCHANGED <<clock, pin, seed, pinHistory>>

\* update(), self.f() raising.
UpdateRaises ==
    LET new == update_raise(self, clock) IN
    /\ state' = new.state
    /\ previous_time' = new.previous_time
    /\ interval' = new.interval
    /\ alt' = FALSE
    /\ raised' = TRUE
    /\ reads' = NoReads
    /\ twin' = update_raise(twin, clock)
    /\ UNCHANGED <<clock, pin, seed, lastSample, obs, lastNow, pinHistory, changeSeen,
                   lastEdge>>

\* A call of update() that returns.
Update == UpdateReturns /\ UNCHANGED <<updates, calls, clockReads>>

\* A call of update() that raises what self.f() raised.
UpdateFail == UpdateRaises /\ UNCHANGED <<updates, calls, clockReads>>

\* The monotonic clock advances by one tick.
Tick ==
    /\ clock < MaxTime
    /\ clock' = clock + 1
    /\ UNCHANGED <<state, previous_time, interval, pin, seed, lastSample, obs,
                   lastNow, alt, pinHistory, changeSeen, raised, reads, updates, calls,
          clockReads, lastEdge, twin>>

\* The input changes level.
PinChange ==
    /\ pin' = ~pin
    /\ pinHistory' = IF pinHistory = "steady" THEN "changedOnce" ELSE "bouncing"
    /\ UNCHANGED <<state, previous_time, interval, clock, seed, lastSample, obs,
                   lastNow, alt, changeSeen, raised, reads, updates, calls,
                   clockReads, lastEdge, twin>>

Next == Update \/ UpdateFail \/ Tick \/ PinChange

Spec == Init /\ [][Next]_vars

\* Mutant: update samples self.f() a second time.
CountedUpdate_resample ==
    /\ updates < MaxUpdates
    /\ UpdateReturns
    /\ updates' = updates + 1
    /\ calls' = calls + 2
    /\ clockReads' = clockReads + 1

\* The counting specification: update calls and calls of self.f() are
\* counted, up to MaxUpdates update calls.
CountedUpdate ==
    /\ updates < MaxUpdates
    /\ UpdateReturns
    /\ updates' = updates + 1
    /\ calls' = calls + 1
    /\ clockReads' = clockReads + 1

CountedUpdateFail ==
    /\ updates < MaxUpdates
    /\ UpdateRaises
    /\ updates' = updates + 1
    /\ calls' = calls + 1
    /\ clockReads' = clockReads + 1

NextCount == CountedUpdate \/ CountedUpdateFail \/ Tick \/ PinChange

SpecCount == Init /\ [][NextCount]_vars

\* Mutant: reading rose clears the edge flag.
ReadRose_clearing ==
    /\ reads' = [reads EXCEPT !.rose = <<rose(state)>>]
    /\ state' = unset_state(state, CHANGED_STATE)
    /\ UNCHANGED <<previous_time, interval, clock, pin, seed, lastSample, obs,
                   lastNow, alt, pinHistory, changeSeen, raised, updates, calls,
                   clockReads, lastEdge, twin>>

\* The caller reads the property value.
ReadValue ==
    /\ reads' = [reads EXCEPT !.value = <<value(state)>>]
    /\ UNCHANGED <<state, previous_time, interval, clock, pin, seed, lastSample, obs,
                   lastNow, alt, pinHistory, changeSeen, raised, updates, calls,
                   clockReads, lastEdge, twin>>

\* The caller reads the property rose.
ReadRose ==
    /\ reads' = [reads EXCEPT !.rose = <<rose(state)>>]
    /\ UNCHANGED <<state, previous_time, interval, clock, pin, seed, lastSample, obs,
                   lastNow, alt, pinHistory, changeSeen, raised, updates, calls,
                   clockReads, lastEdge, twin>>

\* The caller reads the property fell.
ReadFell ==
    /\ reads' = [reads EXCEPT !.fell = <<fell(state)>>]
    /\ UNCHANGED <<state, previous_time, interval, clock, pin, seed, lastSample, obs,
                   lastNow, alt, pinHistory, changeSeen, raised, updates, calls,
                   clockReads, lastEdge, twin>>

NextQuery == Update \/ UpdateFail \/ Tick \/ PinChange \/ ReadValue \/ ReadRose \/ ReadFell

\* The specification with the caller's queries between the update calls.
SpecQuery == Init /\ [][NextQuery]_vars

\* The polling loop: the caller calls update() again and again, and a call
\* that returns is never put off forever.
SpecLive == Init /\ [][Next]_vars /\ WF_vars(Update)

\* ------------------------------------------------- the fields, by name
debounced_state == get_state(state, DEBOUNCED_STATE)
unstable_state == get_state(state, UNSTABLE_STATE)
changed_state == get_state(state, CHANGED_STATE)

\* ------------------------------------------------------------- claims

\* C1. Bounce rejection: with interval > 0, as long as every update call saw
\* a sample unlike the one the call before saw, less than interval after that
\* call, debounced_state is the constructed value and rose and fell are false.
C1_BounceRejection ==
    (interval > 0 /\ alt) =>
        /\ value(state) = seed
        /\ ~rose(state)
        /\ ~fell(state)

\* Alternation went on for at least the interval and over several samples:
\* the last sample is the constructed one again, after an observed change.
C1_Witness ==
    /\ interval > 0 /\ alt
    /\ lastNow # <<>> /\ lastNow[1] >= interval
    /\ obs # <<>> /\ lastSample = seed

\* C3. After an update call rose is true iff the call flipped debounced_state
\* from false to true, fell is true iff it flipped it from true to false, and
\* the two are never true together.
C3_EdgeFlags ==
    [][(Update \/ UpdateFail) =>
          /\ rose(state') <=> (~value(state) /\ value(state'))
          /\ fell(state') <=> (value(state) /\ ~value(state'))
          /\ ~(rose(state') /\ fell(state'))]_vars

\* An update that reported a falling edge after an earlier rising one.
C3_Witness == fell(state) /\ ~value(state) /\ ~seed

\* C4. Continuous hold: an update flips debounced_state to v only when the
\* sample it took is v, the update before it saw v as well, and the update
\* that last saw the raw sample change did so at least interval earlier.
C4_ContinuousHold ==
    [][(Update /\ value(state') # value(state)) =>
          /\ value(state') = pin
          /\ lastSample = pin
          /\ obs # <<>>
          /\ clock - obs[1] >= interval]_vars

\* Scenario B: the pin bounced, and the value flipped only after it was
\* seen unchanged for the interval.
C4_Witness ==
    /\ changed_state /\ interval > 0
    /\ pinHistory = "bouncing"
    /\ obs # <<>> /\ obs[1] > 0 /\ clock - obs[1] >= interval

\* C6. Single edge per transition: an update that reports an edge does not
\* follow an update that reported one, and some update since the last
\* reported edge (or since construction) saw the raw sample change.
C6_SingleEdge ==
    [][(Update /\ get_state(state', CHANGED_STATE)) =>
          /\ value(state') # value(state)
          /\ ~changed_state
          /\ changeSeen]_vars

\* A second edge: the value is back at the constructed one, just reported.
C6_Witness == changed_state /\ debounced_state = seed

\* C8. Degenerate intervals: with interval <= 0 an update whose sample equals
\* unstable_state and differs from debounced_state flips debounced_state,
\* whatever the clock reads.
C8_DegenerateInterval ==
    [][(Update /\ interval <= 0 /\ pin = unstable_state /\ pin # debounced_state) =>
          /\ value(state') = pin
          /\ get_state(state', CHANGED_STATE)]_vars

\* A transition accepted at the very clock reading at which it was first seen.
C8_Witness == interval = 0 /\ changed_state /\ obs = <<clock>> /\ previous_time = clock

\* C10. An update in which the raw-sample function fails raises to its caller
\* with debounced_state, unstable_state and previous_time as before the call
\* and changed_state cleared: value unchanged, rose and fell false.
C10_SampleError ==
    [][UpdateFail =>
          /\ raised'
          /\ value(state') = value(state)
          /\ get_state(state', UNSTABLE_STATE) = unstable_state
          /\ previous_time' = previous_time
          /\ ~get_state(state', CHANGED_STATE)
          /\ ~rose(state') /\ ~fell(state')]_vars

\* The sample failed while a transition was waiting for its interval.
C10_Witness == raised /\ unstable_state # debounced_state /\ ~changed_state

\* C2 as stated. Settle acceptance: the pin changed once, to v, and holds;
\* the edge is reported exactly by the first update at which the time since
\* the update that first saw v is >= interval (0 in that update itself).
C2_AsStated ==
    [][(Update /\ pinHistory = "changedOnce" /\ value(state) # pin) =>
          LET elapsed == IF lastSample = pin THEN clock - obs[1] ELSE 0 IN
          get_state(state', CHANGED_STATE) <=> (elapsed >= interval)]_vars

\* C2, amended. The pin changed once, to v, and holds: debounced_state flips
\* once, in the first update AFTER the one that first saw v at which the time
\* since that one is >= interval; that update reports rose (v true) or fell
\* (v false), every other update reports neither.
C2_SettleAcceptance ==
    [][(Update /\ pinHistory = "changedOnce") =>
          LET accept == /\ value(state) # pin
                        /\ lastSample = pin
                        /\ clock - obs[1] >= interval
          IN  /\ get_state(state', CHANGED_STATE) <=> accept
              /\ value(state') = (IF accept THEN pin ELSE value(state))
              /\ rose(state') <=> (accept /\ pin)
              /\ fell(state') <=> (accept /\ ~pin)]_vars

\* The one change was accepted, later than the interval after it was seen.
C2_Witness ==
    /\ pinHistory = "changedOnce" /\ interval > 0
    /\ changed_state /\ value(state) = pin
    /\ clock - obs[1] > interval

\* C5. Before any update the value and unstable_state are the sample the
\* constructor took, changed_state is false, so rose and fell are, and the
\* raw-sample function was called once.
C5_Construction ==
    updates = 0 =>
        /\ value(state) = seed
        /\ unstable_state = seed
        /\ ~changed_state
        /\ ~rose(state) /\ ~fell(state)
        /\ previous_time = 0
        /\ calls = 1

\* Scenario C: constructed from a true sample.
C5_Witness == updates = 0 /\ seed /\ value(state) /\ state = 3

\* C7. A query changes no field of the object, and returns what the same
\* query returned before it since the last update.
C7_PureQueries ==
    [][(ReadValue \/ ReadRose \/ ReadFell) =>
          /\ UNCHANGED fields
          /\ \A q \in {"value", "rose", "fell"} :
                reads[q] # <<>> => reads'[q] = reads[q]]_vars

\* All three queries were made after an update that reported a rising edge.
C7_Witness ==
    /\ reads.rose = <<TRUE>> /\ reads.fell = <<FALSE>> /\ reads.value = <<TRUE>>

\* C9. Liveness of acceptance, under the polling loop: if from some point on
\* the pin stays at v, and the clock gets interval past the update that first
\* saw v, then from some point on value = v and no edge is reported; and an
\* update made sooner than that reports no change.
C9_Acceptance ==
    /\ \A v \in BOOLEAN :
          <>[](/\ pin = v
               /\ lastSample = v
               /\ (obs = <<>> \/ clock - obs[1] >= interval))
             => <>[](value(state) = v /\ ~changed_state)
    /\ [][(/\ Update
           /\ lastSample = pin /\ obs # <<>>
           /\ clock - obs[1] < interval) => ~get_state(state', CHANGED_STATE)]_vars

\* A change accepted and the edge flag cleared again.
C9_Witness ==
    /\ value(state) = pin /\ value(state) # seed /\ ~changed_state
    /\ interval > 0 /\ lastSample = pin /\ obs # <<>> /\ clock - obs[1] >= interval

\* C11. The update that first sees a sample unlike unstable_state only records
\* it: previous_time becomes the clock reading, unstable_state the sample, and
\* debounced_state and changed_state stay as cleared, for every interval and
\* every clock reading.
C11_RecordOnly ==
    [][(Update /\ pin # unstable_state) =>
          /\ previous_time' = clock
          /\ get_state(state', UNSTABLE_STATE) = pin
          /\ value(state') = value(state)
          /\ ~get_state(state', CHANGED_STATE)
          /\ ~rose(state') /\ ~fell(state')]_vars

\* A change recorded, not accepted, long after construction with an interval
\* that asks for no waiting.
C11_Witness ==
    /\ interval <= 0 /\ clock > 0
    /\ obs = <<clock>> /\ previous_time = clock /\ ~raised
    /\ unstable_state # debounced_state /\ ~changed_state

\* C12. unstable_state is the sample the last update call took (the
\* constructor's sample before any), whether or not the interval has passed
\* and whether or not debounced_state changed.
C12_UnstableIsLastSample == unstable_state = lastSample

\* The sample was taken over before the interval passed, debounced_state kept.
C12_Witness ==
    /\ obs # <<>> /\ interval > 0 /\ clock - obs[1] < interval
    /\ lastSample # seed /\ unstable_state = lastSample /\ value(state) = seed

\* C13. An update whose sample equals unstable_state, made before the interval
\* has passed or with the sample equal to debounced_state, only clears
\* changed_state; and no update call changes interval.
C13_NothingChanges ==
    [][/\ (/\ Update
           /\ pin = unstable_state
           /\ (clock - previous_time < interval \/ pin = debounced_state))
          => /\ value(state') = value(state)
             /\ get_state(state', UNSTABLE_STATE) = unstable_state
             /\ previous_time' = previous_time
             /\ ~get_state(state', CHANGED_STATE)
       /\ (Update \/ UpdateFail) => interval' = interval]_vars

\* The one change of the pin was recorded and then seen again too early.
C13_Witness ==
    /\ pinHistory = "changedOnce" /\ interval > 0
    /\ lastNow # <<>> /\ ~alt /\ ~raised
    /\ unstable_state # debounced_state

\* C14. Every update call calls the raw-sample function once and reads the
\* clock once, whichever branch it takes: after construction and n update
\* calls the function was called n + 1 times and the clock read n times.
C14_OneSamplePerUpdate ==
    /\ calls = updates + 1
    /\ clockReads = updates

\* Updates of all three kinds were made: a change recorded, then accepted,
\* then nothing to do.
C14_Witness ==
    /\ updates >= 3 /\ calls = updates + 1
    /\ value(state) # seed /\ ~changed_state /\ ~raised

\* C17. The first update call after construction leaves debounced_state and
\* reports no edge, whatever the clock reads and the sample is; and whenever
\* debounced_state differs from unstable_state, previous_time is the clock
\* reading of the update that last saw the raw sample change, not the 0 the
\* constructor set.
C17_SentinelUnused ==
    /\ [][((CountedUpdate \/ CountedUpdateFail) /\ updates = 0) =>
             /\ value(state') = value(state)
             /\ ~get_state(state', CHANGED_STATE)]_vars
    /\ [](debounced_state # unstable_state =>
             (obs # <<>> /\ previous_time = obs[1]))

\* One update, made more than the interval after clock reading 0, saw a
\* changed sample and did not accept it.
C17_Witness ==
    /\ updates = 1 /\ interval > 0 /\ clock > interval
    /\ obs = <<clock>> /\ debounced_state # unstable_state /\ ~changed_state

\* C18. Whenever changed_state is set, debounced_state equals unstable_state:
\* the value reported with an edge is the sample the same update took.
C18_EdgeValueIsSample ==
    changed_state =>
        /\ debounced_state = unstable_state
        /\ value(state) = lastSample
        /\ rose(state) => lastSample
        /\ fell(state) => ~lastSample

\* A falling edge reported with a false sample.
C18_Witness == fell(state) /\ ~lastSample /\ seed

\* C15. The Debouncer without line 76 (previous_time set only when a raw
\* change is seen) reports the same value, rose and fell as the source
\* Debouncer after every update, for every sample sequence, clock and interval.
C15_SecondStampRedundant ==
    /\ value(twin.state) = value(state)
    /\ rose(twin.state) = rose(state)
    /\ fell(twin.state) = fell(state)

\* Both have just accepted a change, with different previous_time.
C15_Witness ==
    /\ changed_state /\ get_state(twin.state, CHANGED_STATE)
    /\ twin.previous_time # previous_time
    /\ lastEdge = <<clock>>

\* C16. Minimum edge spacing: with interval >= 0 the clock readings of two
\* updates that each flip debounced_state differ by at least interval.
C16_EdgeSpacing ==
    [][(/\ Update
        /\ value(state') # value(state)
        /\ interval >= 0
        /\ lastEdge # <<>>) => clock - lastEdge[1] >= interval]_vars

\* A second edge, back to the constructed value, after a first one.
C16_Witness ==
    /\ changed_state /\ value(state) = seed /\ interval > 0
    /\ lastEdge = <<clock>> /\ clock >= 2 * interval
====
